---- MODULE Spec2Model ----
(***************************************************************************)
(* Model of the VOR/FIX coordinate calculator: the radial/distance         *)
(* intersection solver (both revisions kept in the repository), the         *)
(* Coordinates value types and the accuracy validator.                      *)
(*                                                                          *)
(* Numbers.  The program computes in IEEE doubles; the model computes in    *)
(* fixed point.  Arc lengths and distances are integers in units of         *)
(* 2^-24 NM (about 0.11 mm), so that halving a bracket is exact down to     *)
(* the 1e-6 NM stopping width, as it is in doubles.  Angles are integers    *)
(* in units of 0.0001 degree.  A comparison of a fixed-point value with a    *)
(* real threshold (1.0 m, 0.1 m, 1e-6 NM) is decided exactly.               *)
(*                                                                          *)
(* Geodesy oracle.  GEODESIC.Direct / GEODESIC.Inverse are external.  The   *)
(* model places the origin at (0,0) of a plane, the ray along the positive  *)
(* x axis and the reference station at (refX, refY): the distance from the  *)
(* point at arc length t to the reference is sqrt((t-refX)^2 + refY^2),     *)
(* rounded down to one unit.  refY = 0 puts the reference on the ray's      *)
(* line (ahead, behind or at the origin).                                   *)
(***************************************************************************)
EXTENDS Integers, Sequences, FiniteSets, TLC

VARIABLES
    op,                     \* the operation under way
    variant,                \* which revision of the operation runs
    query,                  \* the inputs of the operation
    pc,                     \* position inside the operation
    min_dist,               \* solver: lower end of the bracket
    max_dist,               \* solver: upper end of the bracket
    best_approx_distance,   \* solver: error of the best point so far
    best_approx_point,      \* solver: best point so far
    prev_error,             \* solver (part_000): error of the previous iteration
    stagnation_counter,     \* solver (part_000): consecutive small changes
    iteration,              \* solver: loop iterations started
    intersection_found,     \* solver (part_000): tolerance reached
    evaluated,              \* history: every point whose distance was measured
    single,                 \* project: the single-step point and its error
    num_steps,              \* project: steps of the chain under way
    step_distance,          \* project: length of one step of the chain
    step_coords,            \* project: where the chain has got to
    steps_done,             \* project: steps of the chain already made
    step_size_index,        \* project (core): position in step_sizes
    min_error,              \* project (core): error of optimal_coords
    optimal_coords,         \* project (core): best point so far
    forward_calls,          \* history: every GEODESIC.Direct call of project
    result,                 \* what the operation returned or raised
    thread,                 \* the invocation whose locals the variables above hold
    suspended,              \* the locals of the invocations that are not running
    inputs,                 \* history: the arguments every invocation was given
    preempted,              \* history: an invocation was switched from mid-run
    nav_file_path,          \* NavigationDataService: path of the NAV file
    fix_file_path,          \* NavigationDataService: path of the FIX file
    calls                   \* history: the set_file_path calls made

vars == <<op, variant, query, pc, min_dist, max_dist, best_approx_distance,
          best_approx_point, prev_error, stagnation_counter, iteration,
          intersection_found, evaluated, single, num_steps, step_distance,
          step_coords, steps_done, step_size_index, min_error, optimal_coords,
          forward_calls, result, thread, suspended, inputs,
          preempted, nav_file_path, fix_file_path, calls>>

solverVars == <<min_dist, max_dist, best_approx_distance, best_approx_point,
                prev_error, stagnation_counter, iteration, intersection_found,
                evaluated>>

threadVars == <<thread, suspended, inputs, preempted>>

serviceVars == <<nav_file_path, fix_file_path, calls>>

projectVars == <<single, num_steps, step_distance, step_coords, steps_done,
                 step_size_index, min_error, optimal_coords, forward_calls>>

-----------------------------------------------------------------------------
(* Program constants *)

MAX_ITERATIONS == 200

DISTANCE_TOLERANCE_M == 1

METERS_PER_NM == 1852

(* Fixed-point scales of the model *)

UnitsPerNM == 2^24

DegScale == 10^4

\* float('inf')
Inf == 2^30

Abs(x) == IF x < 0 THEN -x ELSE x

Max(x, y) == IF x >= y THEN x ELSE y

Min(x, y) == IF x <= y THEN x ELSE y

\* u units (of 2^-24 NM) are strictly less than num/den NM, decided exactly
LessThanNM(u, num, den) ==
    LET x == num * UnitsPerNM
    IN  IF x % den = 0 THEN u < x \div den ELSE u <= x \div den

\* u units are strictly less than num/den metres (1 NM = 1852 m)
LessThanMeters(u, num, den) == LessThanNM(u, num, den * METERS_PER_NM)

-----------------------------------------------------------------------------
(* Exact comparison of products of naturals below 2^30, in 15-bit limbs *)

LimbBase == 2^15

Prod(p, q) ==
    LET p1 == p \div LimbBase
        p0 == p % LimbBase
        q1 == q \div LimbBase
        q0 == q % LimbBase
        lo == p0 * q0
        mid == p1 * q0 + p0 * q1 + (lo \div LimbBase)
        hi == p1 * q1 + (mid \div LimbBase)
    IN  <<hi, mid % LimbBase, lo % LimbBase>>

LexLE(a, b) ==
    \/ a[1] < b[1]
    \/ a[1] = b[1] /\ a[2] < b[2]
    \/ a[1] = b[1] /\ a[2] = b[2] /\ a[3] <= b[3]

ProdLE(p, q, r, s) == LexLE(Prod(p, q), Prod(r, s))

RECURSIVE DeltaSearch(_, _, _, _)
\* the largest d in lo..hi with d * (2x + d) <= b * b
DeltaSearch(lo, hi, x, b) ==
    IF lo >= hi THEN lo
    ELSE LET m == (lo + hi + 1) \div 2
         IN  IF ProdLE(m, 2 * x + m, b, b)
             THEN DeltaSearch(m, hi, x, b)
             ELSE DeltaSearch(lo, m - 1, x, b)

\* floor(sqrt(x^2 + b^2)) for naturals x, b
Hyp(x, b) == IF b = 0 THEN x ELSE x + DeltaSearch(0, b, x, b)

-----------------------------------------------------------------------------
(* The Coordinates value types *)

\* vor_fix_calculation.Coordinates.__post_init__: TRUE iff construction succeeds
Coordinates_vor_fix(lat, lon) ==
    /\ -90 * DegScale <= lat /\ lat <= 90 * DegScale
    /\ -180 * DegScale < lon /\ lon <= 180 * DegScale

\* a range check that excludes the western boundary, -180 < lon
Coordinates_core_exclusive(lat, lon) ==
    /\ -90 * DegScale <= lat /\ lat <= 90 * DegScale
    /\ -180 * DegScale < lon /\ lon <= 180 * DegScale

\* core_vor_calc.Coordinates.__post_init__: TRUE iff construction succeeds
Coordinates_core(lat, lon) ==
    /\ -90 * DegScale <= lat /\ lat <= 90 * DegScale
    /\ -180 * DegScale <= lon /\ lon <= 180 * DegScale

-----------------------------------------------------------------------------
(* The geodesy oracle as the solver calls it *)

\* longitude GEODESIC.Direct reports for the point at arc length t of the ray:
\* the ray of the query meets the antimeridian at arc length query.crossT
\* (-1: never), and the oracle reports that point with longitude -180
DirectLon(q, t) ==
    IF t = q.crossT THEN -180 * DegScale
    ELSE IF q.crossT < 0 \/ t < q.crossT THEN q.lon0 ELSE 179 * DegScale

\* GEODESIC.Direct(lat_fix, lon_fix, true_bearing, nm_to_meters(t))
Direct(q, t) == [t |-> t, lat |-> q.lat0, lon |-> DirectLon(q, t)]

\* GEODESIC.Inverse(point, dme)['s12'] for the point at arc length t
InverseToDme(q, t) == Hyp(Abs(t - q.refX), q.refY)

\* GEODESIC.Inverse(fix, dme)['s12']
FixDmeDistance(q) == Hyp(Abs(q.refX), q.refY)

-----------------------------------------------------------------------------
(* floor(a * b / c) for a >= 0, c > 0 and any b, without overflow:          *)
(* <<q, r>> with a * b = q * c + r and 0 <= r < c.  A quotient beyond       *)
(* FarDist in magnitude is reported as +-FarDist: the planar oracle of the  *)
(* model covers arc lengths up to FarDist (16 NM) either side of the origin *)

FarDist == 2^28

Clamp(x) == Max(0 - FarDist, Min(FarDist, x))

RECURSIVE MulDivIter(_, _, _, _, _, _)
\* binary long division, one bit of a per step from bit i down to bit 0:
\* q and r are the quotient (saturated at FarDist) and the remainder of
\* (a \div 2^(i+1)) * b by c
MulDivIter(i, q, r, a, b, c) ==
    IF i < 0 \/ Abs(q) >= FarDist \/ r >= c THEN <<q, r>>
    ELSE LET bit == (a \div 2^i) % 2
             rr == 2 * r + bit * (b % c)
         IN  MulDivIter(i - 1, Clamp(2 * q + bit * (b \div c) + (rr \div c)),
                        rr % c, a, b, c)

\* <<floor(a * b / c), (a * b) % c>> for 0 <= a < 2^30 and 0 < c < 2^29, the
\* quotient saturated at FarDist
MulDivRem(a, b, c) == MulDivIter(29, 0, 0, a, b, c)

MulDivFloor(a, b, c) == MulDivRem(a, b, c)[1]

-----------------------------------------------------------------------------
(* The radial/distance intersection solver *)

\* an initial bracket whose lower end is not floored at the origin
SearchRangeNoFloor(distance_nm, fix_dme_distance_nm) ==
    IF LessThanNM(distance_nm, 5, 100)
    THEN <<0, (2 * UnitsPerNM) \div 10>>
    ELSE IF LessThanNM(distance_nm, 5, 10)
    THEN <<0, Max(UnitsPerNM, distance_nm * 2)>>
    ELSE <<fix_dme_distance_nm - distance_nm - UnitsPerNM,
           fix_dme_distance_nm + distance_nm + UnitsPerNM>>

\* an initial bracket with the buffer of 1 NM taken off instead of added
SearchRangeBufferInward(distance_nm, fix_dme_distance_nm) ==
    IF LessThanNM(distance_nm, 5, 100)
    THEN <<0, (2 * UnitsPerNM) \div 10>>
    ELSE IF LessThanNM(distance_nm, 5, 10)
    THEN <<0, Max(UnitsPerNM, distance_nm * 2)>>
    ELSE <<Max(0, fix_dme_distance_nm - distance_nm + UnitsPerNM),
           fix_dme_distance_nm + distance_nm - UnitsPerNM>>

\* an initial bracket without the buffer of 1 NM on either side
SearchRangeNoBuffer(distance_nm, fix_dme_distance_nm) ==
    IF LessThanNM(distance_nm, 5, 100)
    THEN <<0, (2 * UnitsPerNM) \div 10>>
    ELSE IF LessThanNM(distance_nm, 5, 10)
    THEN <<0, Max(UnitsPerNM, distance_nm * 2)>>
    ELSE <<Max(0, fix_dme_distance_nm - distance_nm),
           fix_dme_distance_nm + distance_nm>>

\* the initial bracket, part_000 lines 3635-3645 and vor_fix_calculation.py
\* lines 1333-1340: <<min_dist, max_dist>>
SearchRange(distance_nm, fix_dme_distance_nm) ==
    IF LessThanNM(distance_nm, 5, 100)
    THEN <<0, (2 * UnitsPerNM) \div 10>>
    ELSE IF LessThanNM(distance_nm, 5, 10)
    THEN <<0, Max(UnitsPerNM, distance_nm * 2)>>
    ELSE <<Max(0, fix_dme_distance_nm - distance_nm - UnitsPerNM),
           fix_dme_distance_nm + distance_nm + UnitsPerNM>>

\* vor_fix_calculation.py lines 1342-1346: the default range replaces an
\* invalid one
ValidateSearchRange(range, distance_nm) ==
    IF range[1] >= range[2]
    THEN <<0, Max(UnitsPerNM, distance_nm * 2)>>
    ELSE range

\* a loop that runs one iteration too many, range(MAX_ITERATIONS + 1)
LoopContinuesInclusive(n) == n <= MAX_ITERATIONS

\* for iteration in range(MAX_ITERATIONS)
LoopContinues(n) == n < MAX_ITERATIONS

\* if error_m < best_approx_distance
ImprovesBest(error_m, best) == error_m < best

\* if error_m < DISTANCE_TOLERANCE_M
WithinTolerance(error_m) == LessThanMeters(error_m, DISTANCE_TOLERANCE_M, 1)

\* if (max_dist - min_dist) < 0.000001
RangeExhausted(lo, hi) == LessThanNM(hi - lo, 1, 1000000)

\* a bisection step that leaves the bracket as it is
BisectKeepsRange(lo, hi, test_dist, test_to_dme_m, distance_m) == <<lo, hi>>

\* a bisection step that moves the wrong end of the bracket
BisectWrongEnd(lo, hi, test_dist, test_to_dme_m, distance_m) ==
    IF test_to_dme_m > distance_m THEN <<test_dist, hi>> ELSE <<lo, test_dist>>

\* the bisection step: <<min_dist, max_dist>> after the test at test_dist
Bisect(lo, hi, test_dist, test_to_dme_m, distance_m) ==
    IF test_to_dme_m > distance_m THEN <<lo, test_dist>> ELSE <<test_dist, hi>>

\* part_000 line 3682: abs(prev_error - error_m) < DISTANCE_TOLERANCE_M / 10
MinimalProgress(prev, error_m) ==
    prev # Inf /\ LessThanMeters(Abs(prev - error_m), DISTANCE_TOLERANCE_M, 10)

\* a test that is met by a counter of 5 already
StagnatedFromFive(counter) == counter >= 5

\* part_000 line 3688: if stagnation_counter > 5
Stagnated(counter) == counter > 5

\* part_000 line 3700: if error_1 != error_2 (avoid division by zero)
SecantDefined(e1, e2) == e1 # e2

\* part_000 line 3701: the root of the secant through (t1, e1) and (t2, e2)
SecantDist(t1, t2, e1, e2) ==
    IF e2 - e1 > 0
    THEN Clamp(t1 + MulDivFloor(t2 - t1, 0 - e1, e2 - e1))
    ELSE Clamp(t1 + MulDivFloor(t2 - t1, e1, e1 - e2))

\* part_000 lines 3726-3727: min_dist is assigned first and max_dist is
\* computed from the new min_dist
NarrowRange(lo, hi) ==
    LET new_min == (lo + hi) \div 3
    IN  <<new_min, (2 * (new_min + hi)) \div 3>>

Eval(kind, t, error_m) == [kind |-> kind, t |-> t, error |-> error_m]

\* entry of either solver up to the loop
SolveStart ==
    /\ op = "solve" /\ pc = "start"
    /\ LET range0 == SearchRange(query.distance_nm, FixDmeDistance(query))
           range == IF variant = "vor_fix"
                    THEN ValidateSearchRange(range0, query.distance_nm)
                    ELSE range0
       IN  /\ min_dist' = range[1]
           /\ max_dist' = range[2]
    /\ best_approx_distance' = Inf
    /\ best_approx_point' = IF variant = "vor_fix"
                            THEN [t |-> 0, lat |-> query.lat0, lon |-> query.lon0]
                            ELSE [t |-> 0, lat |-> 0, lon |-> 0]
    /\ prev_error' = Inf
    /\ stagnation_counter' = 0
    /\ iteration' = 0
    /\ intersection_found' = FALSE
    /\ evaluated' = <<>>
    /\ pc' = "loop"
    /\ UNCHANGED threadVars
    /\ UNCHANGED serviceVars
    /\ UNCHANGED <<op, variant, query, result>>
    /\ UNCHANGED projectVars

\* one iteration of FixCalculationFrame._find_radial_distance_intersection
IterateVorFix ==
    /\ op = "solve" /\ variant = "vor_fix" /\ pc = "loop"
    /\ LoopContinues(iteration)
    /\ iteration' = iteration + 1
    /\ LET test_dist == (min_dist + max_dist) \div 2
           test_point == Direct(query, test_dist)
           test_to_dme_m == InverseToDme(query, test_dist)
           error_m == Abs(test_to_dme_m - query.distance_nm)
           range == Bisect(min_dist, max_dist, test_dist, test_to_dme_m,
                           query.distance_nm)
       IN  IF ~Coordinates_vor_fix(test_point.lat, test_point.lon)
           THEN /\ pc' = "raised"
                /\ result' = [kind |-> "ValueError", where |-> "solver"]
                /\ UNCHANGED <<min_dist, max_dist, best_approx_distance,
                               best_approx_point, evaluated>>
           ELSE /\ evaluated' = Append(evaluated, Eval("mid", test_dist, error_m))
                /\ IF ImprovesBest(error_m, best_approx_distance)
                   THEN /\ best_approx_distance' = error_m
                        /\ best_approx_point' = test_point
                   ELSE UNCHANGED <<best_approx_distance, best_approx_point>>
                /\ IF WithinTolerance(error_m)
                   THEN /\ pc' = "return"
                        /\ UNCHANGED <<min_dist, max_dist>>
                   ELSE /\ min_dist' = range[1]
                        /\ max_dist' = range[2]
                        /\ pc' = IF RangeExhausted(range[1], range[2])
                                 THEN "return" ELSE "loop"
                /\ UNCHANGED result
    /\ UNCHANGED projectVars
    /\ UNCHANGED threadVars
    /\ UNCHANGED serviceVars
    /\ UNCHANGED <<op, variant, query, prev_error, stagnation_counter,
                   intersection_found>>

\* one iteration of CoordinateCalculatorApp.find_radial_distance_intersection
IterateApp ==
    /\ op = "solve" /\ variant = "part_000" /\ pc = "loop"
    /\ LoopContinues(iteration)
    /\ iteration' = iteration + 1
    /\ LET test_dist == (min_dist + max_dist) \div 2
           test_point == Direct(query, test_dist)
           test_to_dme_m == InverseToDme(query, test_dist)
           error_m == Abs(test_to_dme_m - query.distance_nm)
           improved == ImprovesBest(error_m, best_approx_distance)
           best1 == IF improved THEN error_m ELSE best_approx_distance
           point1 == IF improved THEN test_point ELSE best_approx_point
           counter == IF MinimalProgress(prev_error, error_m)
                      THEN stagnation_counter + 1 ELSE 0
           \* the stagnation branch
           error_1 == InverseToDme(query, min_dist) - query.distance_nm
           error_2 == InverseToDme(query, max_dist) - query.distance_nm
           secant == SecantDefined(error_1, error_2)
           zero_division == secant /\ error_2 - error_1 = 0
           secant_dist == IF secant
                          THEN SecantDist(min_dist, max_dist, error_1, error_2)
                          ELSE test_dist
           secant_error == Abs(InverseToDme(query, secant_dist) - query.distance_nm)
           improved2 == secant /\ ImprovesBest(secant_error, best1)
           ends == <<Eval("mid", test_dist, error_m),
                     Eval("end", min_dist, Abs(error_1)),
                     Eval("end", max_dist, Abs(error_2))>>
           adjusted == IF min_dist < secant_dist /\ secant_dist < max_dist
                       THEN Bisect(min_dist, max_dist, secant_dist,
                                   test_to_dme_m, query.distance_nm)
                       ELSE NarrowRange(min_dist, max_dist)
           range == Bisect(min_dist, max_dist, test_dist, test_to_dme_m,
                           query.distance_nm)
       IN  IF WithinTolerance(error_m)
           THEN /\ evaluated' = Append(evaluated, Eval("mid", test_dist, error_m))
                /\ best_approx_distance' = best1
                /\ best_approx_point' = point1
                /\ intersection_found' = TRUE
                /\ pc' = "return"
                /\ UNCHANGED <<min_dist, max_dist, prev_error, stagnation_counter,
                               result>>
           ELSE IF Stagnated(counter) /\ zero_division
           THEN /\ pc' = "raised"
                /\ result' = [kind |-> "ZeroDivisionError", where |-> "solver"]
                /\ evaluated' = evaluated \o ends
                /\ best_approx_distance' = best1
                /\ best_approx_point' = point1
                /\ stagnation_counter' = counter
                /\ UNCHANGED <<min_dist, max_dist, prev_error, intersection_found>>
           ELSE IF Stagnated(counter)
           THEN /\ evaluated' = IF secant
                                THEN evaluated \o ends \o
                                     <<Eval("secant", secant_dist, secant_error)>>
                                ELSE evaluated \o ends
                /\ best_approx_distance' = IF improved2 THEN secant_error ELSE best1
                /\ best_approx_point' = IF improved2
                                        THEN Direct(query, secant_dist) ELSE point1
                /\ IF secant /\ WithinTolerance(secant_error)
                   THEN /\ intersection_found' = TRUE
                        /\ pc' = "return"
                        /\ stagnation_counter' = counter
                        /\ UNCHANGED <<min_dist, max_dist>>
                   ELSE /\ stagnation_counter' = 0
                        /\ min_dist' = adjusted[1]
                        /\ max_dist' = adjusted[2]
                        /\ pc' = "loop"
                        /\ UNCHANGED intersection_found
                /\ UNCHANGED <<prev_error, result>>
           ELSE /\ evaluated' = Append(evaluated, Eval("mid", test_dist, error_m))
                /\ best_approx_distance' = best1
                /\ best_approx_point' = point1
                /\ stagnation_counter' = counter
                /\ prev_error' = error_m
                /\ min_dist' = range[1]
                /\ max_dist' = range[2]
                /\ pc' = IF RangeExhausted(range[1], range[2])
                         THEN "return" ELSE "loop"
                /\ UNCHANGED <<intersection_found, result>>
    /\ UNCHANGED threadVars
    /\ UNCHANGED serviceVars
    /\ UNCHANGED <<op, variant, query>>
    /\ UNCHANGED projectVars

\* the for loop runs out of iterations
LoopExhausted ==
    /\ op = "solve" /\ pc = "loop"
    /\ ~LoopContinues(iteration)
    /\ pc' = "return"
    /\ UNCHANGED threadVars
    /\ UNCHANGED serviceVars
    /\ UNCHANGED <<op, variant, query, result>>
    /\ UNCHANGED projectVars
    /\ UNCHANGED solverVars

\* return best_approx_point (part_000: result_point = best_approx_point in
\* every branch of the final verification)
SolveReturn ==
    /\ op = "solve" /\ pc = "return"
    /\ result' = [kind |-> "point", point |-> best_approx_point,
                  error |-> best_approx_distance]
    /\ pc' = "done"
    /\ UNCHANGED threadVars
    /\ UNCHANGED serviceVars
    /\ UNCHANGED <<op, variant, query>>
    /\ UNCHANGED projectVars
    /\ UNCHANGED solverVars

-----------------------------------------------------------------------------
(* Constructing a Coordinates value *)

\* Coordinates(lat, lon) of core_vor_calc.py or of vor_fix_calculation.py:
\* the value, or the ValueError of __post_init__
Construct ==
    /\ op = "coords" /\ pc = "start"
    /\ LET ok == IF variant = "core"
                 THEN Coordinates_core(query.lat, query.lon)
                 ELSE Coordinates_vor_fix(query.lat, query.lon)
       IN  IF ok
           THEN /\ result' = [kind |-> "Coordinates", lat |-> query.lat,
                              lon |-> query.lon]
                /\ pc' = "done"
           ELSE /\ result' = [kind |-> "ValueError", where |-> "__post_init__"]
                /\ pc' = "raised"
    /\ UNCHANGED threadVars
    /\ UNCHANGED serviceVars
    /\ UNCHANGED <<op, variant, query>>
    /\ UNCHANGED projectVars
    /\ UNCHANGED solverVars

-----------------------------------------------------------------------------
(* The accuracy validator, core_vor_calc.py.  Distances are in millimetres, *)
(* expected distances in thousandths of a NM.                               *)

MmPerM == 10^3

FullTurn == 360 * DegScale

\* nm_to_meters, for a distance in thousandths of a NM, in millimetres
nm_to_meters(milli_nm) == milli_nm * METERS_PER_NM

\* azimuth % 360
NormalizeAzimuth(azimuth) == azimuth % FullTurn

\* an azimuth difference without line 156, min(azimuth_diff, 360 - azimuth_diff)
ShortestAngleDirect(actual_azimuth, expected_azimuth) ==
    Abs(actual_azimuth - expected_azimuth)

\* lines 155-156: the shortest angular distance of two normalised azimuths
ShortestAngle(actual_azimuth, expected_azimuth) ==
    LET azimuth_diff == Abs(actual_azimuth - expected_azimuth)
    IN  Min(azimuth_diff, FullTurn - azimuth_diff)

\* lines 150-156
AzimuthError(azi1, expected_azimuth) ==
    ShortestAngle(NormalizeAzimuth(azi1), NormalizeAzimuth(expected_azimuth))

\* a rating whose tiers ask for either threshold, not for both
calculate_accuracy_rating_either(distance_error_m, azimuth_error_deg) ==
    IF distance_error_m <= 1 * MmPerM \/ 1000 * azimuth_error_deg <= 1 * DegScale
    THEN "EXCELLENT"
    ELSE IF distance_error_m <= 5 * MmPerM \/ 100 * azimuth_error_deg <= 1 * DegScale
    THEN "VERY_GOOD"
    ELSE IF distance_error_m <= 10 * MmPerM \/ 10 * azimuth_error_deg <= 1 * DegScale
    THEN "GOOD"
    ELSE IF distance_error_m <= 50 * MmPerM \/ azimuth_error_deg <= 1 * DegScale
    THEN "ACCEPTABLE"
    ELSE "POOR"

\* _calculate_accuracy_rating
calculate_accuracy_rating(distance_error_m, azimuth_error_deg) ==
    IF distance_error_m <= 1 * MmPerM /\ 1000 * azimuth_error_deg <= 1 * DegScale
    THEN "EXCELLENT"
    ELSE IF distance_error_m <= 5 * MmPerM /\ 100 * azimuth_error_deg <= 1 * DegScale
    THEN "VERY_GOOD"
    ELSE IF distance_error_m <= 10 * MmPerM /\ 10 * azimuth_error_deg <= 1 * DegScale
    THEN "GOOD"
    ELSE IF distance_error_m <= 50 * MmPerM /\ azimuth_error_deg <= 1 * DegScale
    THEN "ACCEPTABLE"
    ELSE "POOR"

\* the dictionary validate_calculation_accuracy returns for the call q
ValidationReport(q) ==
    LET actual_azimuth == NormalizeAzimuth(q.azi1)
        azimuth_diff == AzimuthError(q.azi1, q.expected_azimuth)
        distance_error_m == Abs(q.s12 - nm_to_meters(q.expected_distance_nm))
    IN  [kind |-> "report",
         distance_error_m |-> distance_error_m,
         azimuth_error_deg |-> azimuth_diff,
         actual_azimuth_deg |-> actual_azimuth,
         accuracy_rating |-> calculate_accuracy_rating(distance_error_m, azimuth_diff)]

\* validate_calculation_accuracy: query.s12 and query.azi1 are what
\* GEODESIC.Inverse(start, end) reports
ValidateAccuracy ==
    /\ op = "validate" /\ pc = "start"
    /\ result' = ValidationReport(query)
    /\ pc' = "done"
    /\ UNCHANGED threadVars
    /\ UNCHANGED serviceVars
    /\ UNCHANGED <<op, variant, query>>
    /\ UNCHANGED projectVars
    /\ UNCHANGED solverVars

-----------------------------------------------------------------------------
(* calculate_precision_metrics, core_vor_calc.py *)

RECURSIVE SeqSum(_)
\* sum(errors)
SeqSum(errors) ==
    IF errors = <<>> THEN 0 ELSE Head(errors) + SeqSum(Tail(errors))

\* max(errors) and min(errors) of a non-empty list
SeqMax(errors) ==
    CHOOSE x \in {errors[i] : i \in 1..Len(errors)} :
        \A i \in 1..Len(errors) : errors[i] <= x

SeqMin(errors) ==
    CHOOSE x \in {errors[i] : i \in 1..Len(errors)} :
        \A i \in 1..Len(errors) : x <= errors[i]

\* a guard that lets the empty list through to the statistics
NoCalculationsNever(calculations) == FALSE

\* line 189: if not calculations
NoCalculations(calculations) == calculations = <<>>

\* the all-zero dictionary of lines 190-198
ZeroMetrics ==
    [kind |-> "metrics",
     mean_distance_error_m |-> 0, max_distance_error_m |-> 0,
     min_distance_error_m |-> 0,
     mean_azimuth_error_deg |-> 0, max_azimuth_error_deg |-> 0,
     min_azimuth_error_deg |-> 0,
     total_calculations |-> 0]

\* calculate_precision_metrics(query.calculations); the means are rounded
\* down to one unit
CalculatePrecisionMetrics ==
    /\ op = "metrics" /\ pc = "start"
    /\ LET calculations == query.calculations
           n == Len(calculations)
           distance_errors ==
               [i \in 1..n |-> ValidationReport(calculations[i]).distance_error_m]
           azimuth_errors ==
               [i \in 1..n |-> ValidationReport(calculations[i]).azimuth_error_deg]
       IN  IF NoCalculations(calculations)
           THEN /\ result' = ZeroMetrics
                /\ pc' = "done"
           ELSE IF n = 0
           THEN \* sum(distance_errors) / len(distance_errors) with len 0
                /\ result' = [kind |-> "ZeroDivisionError",
                              where |-> "calculate_precision_metrics"]
                /\ pc' = "raised"
           ELSE /\ result' =
                     [kind |-> "metrics",
                      mean_distance_error_m |-> SeqSum(distance_errors) \div n,
                      max_distance_error_m |-> SeqMax(distance_errors),
                      min_distance_error_m |-> SeqMin(distance_errors),
                      mean_azimuth_error_deg |-> SeqSum(azimuth_errors) \div n,
                      max_azimuth_error_deg |-> SeqMax(azimuth_errors),
                      min_azimuth_error_deg |-> SeqMin(azimuth_errors),
                      total_calculations |-> n]
                /\ pc' = "done"
    /\ UNCHANGED threadVars
    /\ UNCHANGED serviceVars
    /\ UNCHANGED <<op, variant, query>>
    /\ UNCHANGED projectVars
    /\ UNCHANGED solverVars

-----------------------------------------------------------------------------
(* get_radius_letter, vor_fix_calculation.py and part_000.  Distances are   *)
(* in hundredths of a NM.                                                   *)

Letters ==
    <<"A", "B", "C", "D", "E", "F", "G", "H", "I", "J", "K", "L", "M",
      "N", "O", "P", "Q", "R", "S", "T", "U", "V", "W", "X", "Y", "Z">>

\* the table `ranges` of vor_fix_calculation.py: (0.1, 1.5, 'A'),
\* (1.5, 2.5, 'B'), ..., (25.5, 26.5, 'Z')
ranges_vor_fix ==
    [i \in 1..26 |-> [low |-> IF i = 1 THEN 10 ELSE 100 * i - 50,
                      high |-> 100 * i + 50,
                      letter |-> Letters[i]]]

\* the table `ranges` of part_000: (0.1, 1.4, 'A'), (1.5, 2.4, 'B'), ...,
\* (25.5, 26.4, 'Z')
ranges_part_000 ==
    [i \in 1..26 |-> [low |-> IF i = 1 THEN 10 ELSE 100 * i - 50,
                      high |-> 100 * i + 40,
                      letter |-> Letters[i]]]

\* a range test open below and closed above, low < distance_nm <= high
InRangeOpenBelow(low, high, distance_nm) == low < distance_nm /\ distance_nm <= high

\* a range test closed at both ends, low <= distance_nm <= high
InRangeClosed(low, high, distance_nm) == low <= distance_nm /\ distance_nm <= high

\* vor_fix_calculation.py line 220: if low <= distance_nm < high
InRange_vor_fix(low, high, distance_nm) == low <= distance_nm /\ distance_nm < high

\* part_000 line 2556: if low <= distance_nm <= high
InRange_part_000(low, high, distance_nm) == low <= distance_nm /\ distance_nm <= high

\* the letter of the first range of the table that holds distance_nm, or "" 
FirstRangeLetter(ranges, matches) ==
    IF \E i \in 1..26 : matches[i]
    THEN ranges[CHOOSE i \in 1..26 : matches[i] /\ \A j \in 1..(i - 1) : ~matches[j]].letter
    ELSE ""

get_radius_letter_vor_fix(distance_nm) ==
    LET found == FirstRangeLetter(ranges_vor_fix,
                     [i \in 1..26 |-> InRange_vor_fix(ranges_vor_fix[i].low,
                                                      ranges_vor_fix[i].high,
                                                      distance_nm)])
    IN  IF found # "" THEN found
        ELSE IF distance_nm < 10 THEN "A"
        ELSE "Z"

get_radius_letter_part_000(distance_nm) ==
    LET found == FirstRangeLetter(ranges_part_000,
                     [i \in 1..26 |-> InRange_part_000(ranges_part_000[i].low,
                                                       ranges_part_000[i].high,
                                                       distance_nm)])
    IN  IF found # "" THEN found ELSE "Z"

GetRadiusLetter ==
    /\ op = "letter" /\ pc = "start"
    /\ result' = [kind |-> "letter",
                  letter |-> IF variant = "vor_fix"
                             THEN get_radius_letter_vor_fix(query.distance_nm)
                             ELSE get_radius_letter_part_000(query.distance_nm)]
    /\ pc' = "done"
    /\ UNCHANGED threadVars
    /\ UNCHANGED serviceVars
    /\ UNCHANGED <<op, variant, query>>
    /\ UNCHANGED projectVars
    /\ UNCHANGED solverVars

-----------------------------------------------------------------------------
(* The forward projection, calculate_target_coords_geodesic.  Lengths are   *)
(* in decimetres (0.1 m).  The oracle of this operation is the equator: a   *)
(* position is the arc length east of the antimeridian, the bearing is      *)
(* 090 throughout, Direct adds the length round the equator and Inverse     *)
(* reports the shorter of the two arcs between two positions, off by        *)
(* query.inverse_error.                                                     *)

DmPerM == MmPerM \div 100

\* the equator is 360 * 60 NM round
Circumference == 360 * 60 * METERS_PER_NM * DmPerM

\* nm_to_meters, for a distance in whole NM, in decimetres
NmToDm(distance_nm) == distance_nm * METERS_PER_NM * DmPerM

\* the longitude the oracle reports at a position (pos \div METERS_PER_NM is
\* in tenths of a minute of arc): -180 on the antimeridian, more than -180
\* east of it
LonAt(pos) ==
    IF pos = 0 THEN -180 * DegScale
    ELSE Max(1 - 180 * DegScale,
             ((pos \div METERS_PER_NM) * (DegScale \div 100)) \div 6
                 - 180 * DegScale)

PointAt(pos) == [pos |-> pos, lat |-> 0, lon |-> LonAt(pos)]

NoPoint == [pos |-> -1, lat |-> 0, lon |-> 0]

\* GEODESIC.Direct(from, azimuth, length): the destination
ProjectDirect(from, length) == PointAt((from.pos + length) % Circumference)

\* GEODESIC.Inverse(from, to)['s12']
ProjectInverse(q, from, to) ==
    LET east == (to.pos - from.pos) % Circumference
    IN  Min(east, Circumference - east) + q.inverse_error

\* abs(actual_distance_m - distance_m)
DistanceError(q, from, to) ==
    Abs(ProjectInverse(q, from, to) - NmToDm(q.distance_nm))

ForwardCall(from, length) == [from |-> from.pos, length |-> length]

\* a refinement test that takes an error of exactly 0.1 m too
NeedsRefinementInclusive(distance_error) == 10 * distance_error >= DmPerM

\* vor_fix_calculation.py line 193: distance_error_m > 0.1
NeedsRefinement(distance_error) == 10 * distance_error > DmPerM

\* core_vor_calc.py line 93: distance_error_m <= DISTANCE_TOLERANCE_M
Acceptable(distance_error) == distance_error <= DISTANCE_TOLERANCE_M * DmPerM

\* one step more than line 194 asks for
NumStepsOneMore(distance_nm) == Max(1, distance_nm \div 500) + 1

\* vor_fix_calculation.py line 194: max(1, int(distance_nm / 500))
NumSteps(distance_nm) == Max(1, distance_nm \div 500)

\* core_vor_calc.py line 101
step_sizes == <<100, 250, 500, 1000>>

\* core_vor_calc.py line 104: distance_nm < step_size_km / 1.852
SkipStepSize(distance_nm, step_size_km) ==
    distance_nm * METERS_PER_NM < step_size_km * 1000

\* core_vor_calc.py line 107: max(2, int(distance_nm * 1.852 / step_size_km))
NumStepsCore(distance_nm, step_size_km) ==
    Max(2, (distance_nm * METERS_PER_NM) \div (step_size_km * 1000))

ProjectReturns(point) ==
    /\ result' = [kind |-> "Coordinates", pos |-> point.pos,
                  lat |-> point.lat, lon |-> point.lon]
    /\ pc' = "done"

ProjectRaises ==
    /\ result' = [kind |-> "ValueError", where |-> "__post_init__"]
    /\ pc' = "raised"

\* vor_fix_calculation.py lines 173-205 up to the chain of steps: the single
\* forward call, its verification and the choice of path
ProjectStartVorFix ==
    /\ op = "project" /\ variant = "vor_fix" /\ pc = "start"
    /\ LET start == PointAt(query.start_pos)
           distance_m == NmToDm(query.distance_nm)
           point == ProjectDirect(start, distance_m)
           distance_error_m == DistanceError(query, start, point)
           n == NumSteps(query.distance_nm)
       IN  /\ forward_calls' = <<ForwardCall(start, distance_m)>>
           /\ single' = [point |-> point, error |-> distance_error_m]
           /\ IF NeedsRefinement(distance_error_m) /\ n > 1
              THEN /\ num_steps' = n
                   /\ step_distance' = distance_m \div n
                   /\ step_coords' = start
                   /\ pc' = "steps"
                   /\ UNCHANGED result
              ELSE /\ IF Coordinates_vor_fix(point.lat, point.lon)
                      THEN ProjectReturns(point)
                      ELSE ProjectRaises
                   /\ UNCHANGED <<num_steps, step_distance, step_coords>>
    /\ UNCHANGED threadVars
    /\ UNCHANGED serviceVars
    /\ UNCHANGED <<op, variant, query, steps_done, step_size_index, min_error,
                   optimal_coords>>
    /\ UNCHANGED solverVars

\* vor_fix_calculation.py lines 197-202: one pass of the loop over the steps
ProjectStepVorFix ==
    /\ op = "project" /\ variant = "vor_fix" /\ pc = "steps"
    /\ steps_done < num_steps
    /\ LET point == ProjectDirect(step_coords, step_distance)
       IN  /\ forward_calls' = Append(forward_calls,
                                      ForwardCall(step_coords, step_distance))
           /\ steps_done' = steps_done + 1
           /\ IF Coordinates_vor_fix(point.lat, point.lon)
              THEN /\ step_coords' = point
                   /\ UNCHANGED <<pc, result>>
              ELSE /\ ProjectRaises
                   /\ UNCHANGED step_coords
    /\ UNCHANGED threadVars
    /\ UNCHANGED serviceVars
    /\ UNCHANGED <<op, variant, query, single, num_steps, step_distance,
                   step_size_index, min_error, optimal_coords>>
    /\ UNCHANGED solverVars

\* vor_fix_calculation.py line 203: return step_coords
ProjectChainReturn ==
    /\ op = "project" /\ variant = "vor_fix" /\ pc = "steps"
    /\ steps_done = num_steps
    /\ ProjectReturns(step_coords)
    /\ UNCHANGED threadVars
    /\ UNCHANGED serviceVars
    /\ UNCHANGED <<op, variant, query>>
    /\ UNCHANGED projectVars
    /\ UNCHANGED solverVars

\* core_vor_calc.py lines 78-98: the single forward call, its verification
\* and the choice of path
ProjectStartCore ==
    /\ op = "project" /\ variant = "core" /\ pc = "start"
    /\ LET start == PointAt(query.start_pos)
           distance_m == NmToDm(query.distance_nm)
           point == ProjectDirect(start, distance_m)
           distance_error_m == DistanceError(query, start, point)
       IN  /\ forward_calls' = <<ForwardCall(start, distance_m)>>
           /\ single' = [point |-> point, error |-> distance_error_m]
           /\ IF ~Coordinates_core(point.lat, point.lon)
              THEN /\ ProjectRaises
                   /\ UNCHANGED <<optimal_coords, min_error, step_size_index>>
              ELSE IF Acceptable(distance_error_m)
              THEN /\ ProjectReturns(point)
                   /\ UNCHANGED <<optimal_coords, min_error, step_size_index>>
              ELSE /\ optimal_coords' = point
                   /\ min_error' = distance_error_m
                   /\ step_size_index' = 1
                   /\ pc' = "sizes"
                   /\ UNCHANGED result
    /\ UNCHANGED threadVars
    /\ UNCHANGED serviceVars
    /\ UNCHANGED <<op, variant, query, num_steps, step_distance, step_coords,
                   steps_done>>
    /\ UNCHANGED solverVars

\* core_vor_calc.py lines 103-109 and 134: the next step size, or the return
\* once the step sizes are used up
ProjectNextSize ==
    /\ op = "project" /\ variant = "core" /\ pc = "sizes"
    /\ IF step_size_index > Len(step_sizes)
       THEN /\ ProjectReturns(optimal_coords)
            /\ UNCHANGED <<step_size_index, num_steps, step_distance,
                           step_coords, steps_done>>
       ELSE IF SkipStepSize(query.distance_nm, step_sizes[step_size_index])
       THEN /\ step_size_index' = step_size_index + 1
            /\ UNCHANGED <<pc, result, num_steps, step_distance, step_coords,
                           steps_done>>
       ELSE LET n == NumStepsCore(query.distance_nm,
                                  step_sizes[step_size_index])
            IN  /\ num_steps' = n
                /\ step_coords' = PointAt(query.start_pos)
                /\ step_distance' = NmToDm(query.distance_nm) \div n
                /\ steps_done' = 0
                /\ pc' = "steps"
                /\ UNCHANGED <<result, step_size_index>>
    /\ UNCHANGED threadVars
    /\ UNCHANGED serviceVars
    /\ UNCHANGED <<op, variant, query, single, min_error, optimal_coords,
                   forward_calls>>
    /\ UNCHANGED solverVars

\* core_vor_calc.py lines 112-116: one pass of the loop over the steps
ProjectStepCore ==
    /\ op = "project" /\ variant = "core" /\ pc = "steps"
    /\ steps_done < num_steps
    /\ LET point == ProjectDirect(step_coords, step_distance)
       IN  /\ forward_calls' = Append(forward_calls,
                                      ForwardCall(step_coords, step_distance))
           /\ steps_done' = steps_done + 1
           /\ IF Coordinates_core(point.lat, point.lon)
              THEN /\ step_coords' = point
                   /\ UNCHANGED <<pc, result>>
              ELSE /\ ProjectRaises
                   /\ UNCHANGED step_coords
    /\ UNCHANGED threadVars
    /\ UNCHANGED serviceVars
    /\ UNCHANGED <<op, variant, query, single, num_steps, step_distance,
                   step_size_index, min_error, optimal_coords>>
    /\ UNCHANGED solverVars

\* core_vor_calc.py lines 118-132: the verification of a finished chain
ProjectVerifyChain ==
    /\ op = "project" /\ variant = "core" /\ pc = "steps"
    /\ steps_done = num_steps
    /\ LET final_distance_error ==
               DistanceError(query, PointAt(query.start_pos), step_coords)
       IN  IF final_distance_error < min_error
           THEN /\ min_error' = final_distance_error
                /\ optimal_coords' = step_coords
                /\ IF Acceptable(final_distance_error)
                   THEN /\ ProjectReturns(step_coords)
                        /\ UNCHANGED step_size_index
                   ELSE /\ step_size_index' = step_size_index + 1
                        /\ pc' = "sizes"
                        /\ UNCHANGED result
           ELSE /\ step_size_index' = step_size_index + 1
                /\ pc' = "sizes"
                /\ UNCHANGED <<result, min_error, optimal_coords>>
    /\ UNCHANGED threadVars
    /\ UNCHANGED serviceVars
    /\ UNCHANGED <<op, variant, query, single, num_steps, step_distance,
                   step_coords, steps_done, forward_calls>>
    /\ UNCHANGED solverVars

-----------------------------------------------------------------------------
(* InputValidator.validate_coordinates, core_vor_calc.py.  A string is a    *)
(* sequence of characters.                                                  *)

Characters == {" ", "-", "1", "9", "x"}

Digits == {"1", "9"}

DigitValue(c) == IF c = "1" THEN 1 ELSE 9

\* str.strip(): the string without its leading and trailing white space
Strip(str) ==
    LET inked == {i \in 1..Len(str) : str[i] # " "}
    IN  IF inked = {} THEN <<>>
        ELSE SubSeq(str, CHOOSE i \in inked : \A j \in inked : i <= j,
                         CHOOSE i \in inked : \A j \in inked : j <= i)

\* str.split(): the runs of characters other than white space
RECURSIVE Split(_)
Split(str) ==
    IF str = <<>> THEN <<>>
    ELSE IF Head(str) = " " THEN Split(Tail(str))
    ELSE LET n == CHOOSE k \in 1..Len(str) :
                      /\ \A i \in 1..k : str[i] # " "
                      /\ k = Len(str) \/ str[k + 1] = " "
         IN  <<SubSeq(str, 1, n)>> \o Split(SubSeq(str, n + 1, Len(str)))

\* float(token) succeeds: over these characters, on an optional minus sign
\* and one digit or more
Parses(token) ==
    LET digits == IF token # <<>> /\ Head(token) = "-" THEN Tail(token)
                  ELSE token
    IN  /\ digits # <<>>
        /\ \A i \in 1..Len(digits) : digits[i] \in Digits

RECURSIVE Decimal(_)
Decimal(digits) ==
    IF digits = <<>> THEN 0
    ELSE 10 * Decimal(SubSeq(digits, 1, Len(digits) - 1))
             + DigitValue(digits[Len(digits)])

\* float(token), in units of 0.0001
Float(token) ==
    IF Head(token) = "-" THEN 0 - Decimal(Tail(token)) * DegScale
    ELSE Decimal(token) * DegScale

\* a count check that lets three parts and more through
WrongPartCountBelow(parts) == Len(parts) < 2

\* line 231: len(parts) != 2
WrongPartCount(parts) == Len(parts) # 2

ValueErrorOf(message) == [kind |-> "ValueError", message |-> message]

\* what validate_coordinates(coords_str) returns or raises
validate_coordinates(coords_str) ==
    IF Strip(coords_str) = <<>>
    THEN ValueErrorOf("Coordinates cannot be empty")
    ELSE LET parts == Split(Strip(coords_str))
         IN  IF WrongPartCount(parts)
             THEN ValueErrorOf("Coordinates must contain exactly two numbers: latitude and longitude")
             ELSE IF ~(Parses(parts[1]) /\ Parses(parts[2]))
             THEN ValueErrorOf("Coordinates must be valid numbers")
             ELSE IF ~Coordinates_core(Float(parts[1]), Float(parts[2]))
             THEN ValueErrorOf("Invalid coordinate format")
             ELSE [kind |-> "Coordinates", lat |-> Float(parts[1]),
                   lon |-> Float(parts[2])]

ValidateCoordinates ==
    /\ op = "validate_coordinates" /\ pc = "start"
    /\ result' = validate_coordinates(query.coords_str)
    /\ pc' = IF result'.kind = "Coordinates" THEN "done" ELSE "raised"
    /\ UNCHANGED threadVars
    /\ UNCHANGED serviceVars
    /\ UNCHANGED <<op, variant, query>>
    /\ UNCHANGED projectVars
    /\ UNCHANGED solverVars

-----------------------------------------------------------------------------
(* NavigationDataService, the same text in core_vor_calc.py (254-295) and   *)
(* in vor_fix_calculation.py (227-268).  A line of a data file is the       *)
(* sequence of its parts.                                                   *)

FileTypes == {"NAV", "FIX"}

\* the files on disk: earth_nav.dat and earth_fix.dat exist, absent.dat
\* does not
Files ==
    [earth_nav |-> << <<"3", "0", "0", "0", "0", "0", "0", "ABC", "VOR">>,
                      <<"I">>,
                      <<"3", "0", "0", "0", "0", "0", "0", "XYZ", "VOR">> >>,
     earth_fix |-> << <<"0", "0", "ABC">>, <<"0", "0", "ABC", "ENRT">>,
                      <<"99">> >>]

Paths == {"", "earth_nav", "earth_fix", "absent"}

\* str.upper() of the identifiers used
Upper(identifier) == IF identifier = "abc" THEN "ABC" ELSE identifier

\* set_file_path(file_type, path), lines 261-266
SetFilePath(file_type, path) ==
    /\ op = "navdata" /\ pc = "start"
    /\ Len(calls) < query.max_calls
    /\ IF file_type = "NAV"
       THEN nav_file_path' = path /\ UNCHANGED fix_file_path
       ELSE fix_file_path' = path /\ UNCHANGED nav_file_path
    /\ calls' = Append(calls, [file_type |-> file_type, path |-> path])
    /\ UNCHANGED <<op, variant, query, pc, result>>
    /\ UNCHANGED threadVars
    /\ UNCHANGED projectVars
    /\ UNCHANGED solverVars

\* a selection that takes the NAV path for either file type
SelectedPathNav(file_type) == nav_file_path

\* lines 274-275: the path of the requested file type
SelectedPath(file_type) ==
    IF file_type = "NAV" THEN nav_file_path ELSE fix_file_path

\* lines 283-288: the parts of the lines whose identifier part matches
RECURSIVE MatchingLines(_, _, _)
MatchingLines(lines, identifier, file_type) ==
    IF lines = <<>> THEN <<>>
    ELSE LET parts == Head(lines)
             relevant_index == IF file_type = "NAV" THEN 7 ELSE 2
             rest == MatchingLines(Tail(lines), identifier, file_type)
         IN  IF Len(parts) > relevant_index
                /\ parts[relevant_index + 1] = Upper(identifier)
             THEN <<parts>> \o rest
             ELSE rest

\* what search_identifier(identifier, file_type) returns or raises
search_identifier(identifier, file_type) ==
    LET file_path == SelectedPath(file_type)
    IN  IF file_path = ""
        THEN [kind |-> "FileNotFoundError", message |-> "No file selected"]
        ELSE IF file_path \notin DOMAIN Files
        THEN [kind |-> "FileNotFoundError", message |-> "File not found"]
        ELSE [kind |-> "list",
              lines |-> MatchingLines(Files[file_path], identifier, file_type)]

SearchIdentifier ==
    /\ op = "navdata" /\ pc = "start"
    /\ result' = search_identifier(query.identifier, query.file_type)
    /\ pc' = IF result'.kind = "list" THEN "done" ELSE "raised"
    /\ UNCHANGED <<op, variant, query>>
    /\ UNCHANGED serviceVars
    /\ UNCHANGED threadVars
    /\ UNCHANGED projectVars
    /\ UNCHANGED solverVars

-----------------------------------------------------------------------------
(* Inputs of the solver *)

\* reference stations are placed on a grid of whole NM, up to this many NM
\* from the origin along the ray (either way) and abeam of it
MaxRefNM == 2

NM(n, d) == (n * UnitsPerNM) \div d

SolverQuery(x, y, t, c) ==
    [refX |-> x, refY |-> y, distance_nm |-> t, crossT |-> c,
     lat0 |-> 0, lon0 |-> -179 * DegScale]

\* target distances: one of each branch of the search-range policy
TargetDistances == {NM(3, 100), NM(3, 10), NM(1, 1), NM(2, 1)}

\* spec scenario "short intersection": origin (45.0, -75.0), bearing 90,
\* reference (45.0, -74.9), target 0.3 NM.  On WGS84 the reference lies
\* 7884.7 m along the ray and 4.9 m abeam of it.
ShortIntersectionQuery == SolverQuery(71427500, 44117, NM(3, 10), -1)

\* spec scenario "degenerate bracket": reference at the origin, target 10 NM
CoincidentQuery == SolverQuery(0, 0, NM(10, 1), -1)

\* the origin itself lies 0.999 m outside the target circle: reference 1 NM
\* behind the origin on the line of the ray, target 1 NM less 0.999 m
OriginNearCircleQuery == SolverQuery(0 - NM(1, 1), 0, NM(1, 1) - 9050, -1)

\* rays that meet the antimeridian where the solver tests a point: at the
\* second and at the third midpoint of the bracket [0, 1] NM
AntimeridianQueries ==
    { SolverQuery(NM(3, 1), 0, NM(3, 10), c) : c \in {NM(1, 4), NM(1, 8)} }

\* targets on either side of the 0.05 NM and 0.5 NM limits of the initial
\* bracket (0.05 NM lies between two units, 0.5 NM is a whole number of them)
BoundaryTargetQueries ==
    { SolverQuery(NM(x, 1), 0, t, -1) :
        x \in {0, MaxRefNM},
        t \in {NM(5, 100), NM(5, 100) + 1, NM(1, 2) - 1, NM(1, 2)} }

\* reference 1.75 NM behind the origin and 0.25 NM abeam, target 1 NM: no
\* crossing ahead of the origin, and the search stagnates on a bracket
\* [0, h] with h between 1e-6 and 1.8e-6 NM
NarrowCorrectionQuery == SolverQuery(0 - NM(7, 4), NM(1, 4), NM(1, 1), -1)

\* targets of zero and of -1 NM, the reference at the origin or ahead of it
NonPositiveTargetQueries ==
    { SolverQuery(NM(x, 1), 0, t, -1) :
        x \in {0, MaxRefNM}, t \in {0, 0 - NM(1, 1)} }

SolverQueries ==
    { SolverQuery(NM(x, 1), NM(y, 1), t, -1) :
        x \in (0 - MaxRefNM)..MaxRefNM, y \in 0..MaxRefNM, t \in TargetDistances }
    \cup {ShortIntersectionQuery, CoincidentQuery, OriginNearCircleQuery}
    \cup AntimeridianQueries
    \cup BoundaryTargetQueries
    \cup {NarrowCorrectionQuery}
    \cup NonPositiveTargetQueries

-----------------------------------------------------------------------------
(* Inputs of Coordinates and of the validator *)

Deg(n, d) == (n * DegScale) \div d

\* latitudes and longitudes at, just inside, just outside and one degree
\* outside the limits
LatInputs == {0} \cup { sgn * (Deg(90, 1) + d) : sgn \in {-1, 1}, d \in {-1, 0, 1, DegScale} }

LonInputs == {0} \cup { sgn * (Deg(180, 1) + d) : sgn \in {-1, 1}, d \in {-1, 0, 1, DegScale} }

\* expected azimuths are given up to this many full turns outside [0, 360)
MaxTurns == 1

\* the azimuth GEODESIC.Inverse reports lies in [-180, 180]
OracleAzimuth(azimuth) ==
    LET a == azimuth % FullTurn
    IN  IF a > Deg(180, 1) THEN a - FullTurn ELSE a

ExpectedAzimuths ==
    { base + k * FullTurn :
        base \in {0, Deg(1, 1000), Deg(90, 1), Deg(180, 1), Deg(3599, 10)},
        k \in (0 - MaxTurns)..MaxTurns }

AzimuthOffsets ==
    { sgn * d : sgn \in {-1, 1},
                d \in {0, Deg(1, 1000), Deg(1, 1000) + 1, Deg(1, 100), Deg(1, 100) + 1,
                       Deg(1, 10), Deg(1, 10) + 1, Deg(2, 10), Deg(1, 1), Deg(1, 1) + 1,
                       Deg(90, 1), Deg(1799, 10), Deg(180, 1)} }

\* distance errors in millimetres, either side of each rating threshold
DistanceOffsets ==
    { sgn * (m * MmPerM + d) : sgn \in {-1, 1}, m \in {0, 1, 5, 10, 50}, d \in {0, 1} }

ValidateQueries ==
    { [expected_azimuth |-> e, azi1 |-> OracleAzimuth(e + off),
       expected_distance_nm |-> 1000, s12 |-> nm_to_meters(1000) + doff] :
        e \in ExpectedAzimuths, off \in AzimuthOffsets, doff \in DistanceOffsets }

\* lists of up to this many calculations are handed to the metrics
MaxCalculations == 2

\* calculations with errors 0, (1 m, 0.001 deg) and (50.001 m, 180 deg)
MetricsSamples ==
    { [expected_azimuth |-> 0, azi1 |-> OracleAzimuth(off),
       expected_distance_nm |-> 1000, s12 |-> nm_to_meters(1000) + doff] :
        <<off, doff>> \in {<<0, 0>>, <<Deg(1, 1000), MmPerM>>,
                           <<Deg(180, 1), 50 * MmPerM + 1>>} }

CalculationLists ==
    UNION { [1..n -> MetricsSamples] : n \in 0..MaxCalculations }

\* distances from 0 up to this many NM, in steps of 0.01 NM, are given a
\* radius letter
MaxLetterNM == 28

LetterDistances == 0..(100 * MaxLetterNM)


\* forward projections of up to this many NM
MaxProjectNM == 12000

\* distances on both sides of every step count up to three, half way round
\* the equator and beyond
ProjectDistances ==
    {d \in {0, 100, 999, 1000, 1001, 1499, 1500, 10800, MaxProjectNM} :
        d <= MaxProjectNM}

\* starting positions: the Greenwich meridian, and 500 and 1000 NM west of
\* the antimeridian
ProjectStarts ==
    {Circumference \div 2, Circumference - NmToDm(500),
     Circumference - NmToDm(1000)}

\* the Inverse answer is exact, or off by 0.1 m, 0.2 m, 1.0 m or 1.1 m
InverseErrors == {0, 1, 2, 10, 11}

ProjectQueries ==
    [start_pos : ProjectStarts, distance_nm : ProjectDistances,
     inverse_error : InverseErrors]

\* coordinate strings of up to this many characters
MaxInputLen == 6

CoordinateStrings == UNION { [1..n -> Characters] : n \in 0..MaxInputLen }

\* up to this many set_file_path calls come before a search
MaxSetCalls == 3

Identifiers == {"ABC", "abc", "XYZ", "NONE"}

-----------------------------------------------------------------------------
(* Specification *)

\* the locals of an invocation on entry
Entered ==
    /\ pc = "start"
    /\ min_dist = 0
    /\ max_dist = 0
    /\ best_approx_distance = Inf
    /\ best_approx_point = [t |-> 0, lat |-> 0, lon |-> 0]
    /\ prev_error = Inf
    /\ stagnation_counter = 0
    /\ iteration = 0
    /\ intersection_found = FALSE
    /\ evaluated = <<>>
    /\ single = NoPoint
    /\ num_steps = 0
    /\ step_distance = 0
    /\ step_coords = NoPoint
    /\ steps_done = 0
    /\ step_size_index = 0
    /\ min_error = Inf
    /\ optimal_coords = NoPoint
    /\ forward_calls = <<>>
    /\ result = [kind |-> "none"]

InitSolve ==
    /\ op = "solve"
    /\ variant \in {"vor_fix", "part_000"}
    /\ query \in SolverQueries

InitCoords ==
    /\ op = "coords"
    /\ variant \in {"core", "vor_fix"}
    /\ query \in [lat : LatInputs, lon : LonInputs]

InitValidate ==
    /\ op = "validate"
    /\ variant = "core"
    /\ query \in ValidateQueries

InitMetrics ==
    /\ op = "metrics"
    /\ variant = "core"
    /\ query \in [calculations : CalculationLists]

InitLetter ==
    /\ op = "letter"
    /\ variant \in {"vor_fix", "part_000"}
    /\ query \in [distance_nm : LetterDistances]

InitProject ==
    /\ op = "project"
    /\ variant \in {"vor_fix", "core"}
    /\ query \in ProjectQueries

InitValidateCoordinates ==
    /\ op = "validate_coordinates"
    /\ variant = "core"
    /\ query \in [coords_str : CoordinateStrings]

InitNavData ==
    /\ op = "navdata"
    /\ variant \in {"core", "vor_fix"}
    /\ query \in [max_calls : {MaxSetCalls}, identifier : Identifiers,
                  file_type : FileTypes]

Init ==
    /\ \/ InitSolve
       \/ InitCoords
       \/ InitValidate
       \/ InitMetrics
       \/ InitLetter
       \/ InitProject
       \/ InitValidateCoordinates
       \/ InitNavData
    /\ Entered
    /\ thread = 1
    /\ suspended = <<>>
    /\ inputs = <<>>
    /\ preempted = FALSE
    /\ nav_file_path = ""
    /\ fix_file_path = ""
    /\ calls = <<>>

Next ==
    \/ SolveStart
    \/ IterateVorFix
    \/ IterateApp
    \/ LoopExhausted
    \/ SolveReturn
    \/ Construct
    \/ ValidateAccuracy
    \/ CalculatePrecisionMetrics
    \/ GetRadiusLetter
    \/ ProjectStartVorFix
    \/ ProjectStepVorFix
    \/ ProjectChainReturn
    \/ ProjectStartCore
    \/ ProjectNextSize
    \/ ProjectStepCore
    \/ ProjectVerifyChain
    \/ ValidateCoordinates
    \/ \E file_type \in FileTypes, path \in Paths : SetFilePath(file_type, path)
    \/ SearchIdentifier

Spec == Init /\ [][Next]_vars

-----------------------------------------------------------------------------
(* Concurrent invocations.  An invocation's arguments and locals are the    *)
(* variables op ... result; the GEODESIC oracle and the module constants    *)
(* are the operators above, which no action changes.  Two invocations run   *)
(* interleaved, switching between any two steps; before them, each one's    *)
(* arguments are run alone, to completion, as a reference.                  *)

\* the arguments and locals of the running invocation
Locals ==
    [op |-> op, variant |-> variant, query |-> query, pc |-> pc,
     min_dist |-> min_dist, max_dist |-> max_dist,
     best_approx_distance |-> best_approx_distance,
     best_approx_point |-> best_approx_point, prev_error |-> prev_error,
     stagnation_counter |-> stagnation_counter, iteration |-> iteration,
     intersection_found |-> intersection_found, evaluated |-> evaluated,
     single |-> single, num_steps |-> num_steps,
     step_distance |-> step_distance, step_coords |-> step_coords,
     steps_done |-> steps_done, step_size_index |-> step_size_index,
     min_error |-> min_error, optimal_coords |-> optimal_coords,
     forward_calls |-> forward_calls, result |-> result]

\* the arguments and locals of an invocation on entry
Entry(input) ==
    [op |-> input.op, variant |-> input.variant, query |-> input.query,
     pc |-> "start", min_dist |-> 0, max_dist |-> 0,
     best_approx_distance |-> Inf,
     best_approx_point |-> [t |-> 0, lat |-> 0, lon |-> 0],
     prev_error |-> Inf, stagnation_counter |-> 0, iteration |-> 0,
     intersection_found |-> FALSE, evaluated |-> <<>>,
     single |-> NoPoint, num_steps |-> 0, step_distance |-> 0,
     step_coords |-> NoPoint, steps_done |-> 0, step_size_index |-> 0,
     min_error |-> Inf, optimal_coords |-> NoPoint,
     forward_calls |-> <<>>, result |-> [kind |-> "none"]]

\* a switch that leaves the step counter of the invocation switched from in
\* place
ResumeSharedCounter(f) ==
    /\ op' = f.op
    /\ variant' = f.variant
    /\ query' = f.query
    /\ pc' = f.pc
    /\ min_dist' = f.min_dist
    /\ max_dist' = f.max_dist
    /\ best_approx_distance' = f.best_approx_distance
    /\ best_approx_point' = f.best_approx_point
    /\ prev_error' = f.prev_error
    /\ stagnation_counter' = f.stagnation_counter
    /\ iteration' = f.iteration
    /\ intersection_found' = f.intersection_found
    /\ evaluated' = f.evaluated
    /\ single' = f.single
    /\ num_steps' = f.num_steps
    /\ step_distance' = f.step_distance
    /\ step_coords' = f.step_coords
    /\ steps_done' = steps_done
    /\ step_size_index' = f.step_size_index
    /\ min_error' = f.min_error
    /\ optimal_coords' = f.optimal_coords
    /\ forward_calls' = f.forward_calls
    /\ result' = f.result

\* the running invocation continues with its own arguments and locals
Resume(f) ==
    /\ op' = f.op
    /\ variant' = f.variant
    /\ query' = f.query
    /\ pc' = f.pc
    /\ min_dist' = f.min_dist
    /\ max_dist' = f.max_dist
    /\ best_approx_distance' = f.best_approx_distance
    /\ best_approx_point' = f.best_approx_point
    /\ prev_error' = f.prev_error
    /\ stagnation_counter' = f.stagnation_counter
    /\ iteration' = f.iteration
    /\ intersection_found' = f.intersection_found
    /\ evaluated' = f.evaluated
    /\ single' = f.single
    /\ num_steps' = f.num_steps
    /\ step_distance' = f.step_distance
    /\ step_coords' = f.step_coords
    /\ steps_done' = f.steps_done
    /\ step_size_index' = f.step_size_index
    /\ min_error' = f.min_error
    /\ optimal_coords' = f.optimal_coords
    /\ forward_calls' = f.forward_calls
    /\ result' = f.result

\* the two invocations that run interleaved
Threads == {1, 2}

\* the reference run of an invocation: the same arguments, run alone
Reference(t) == t + 2

References == {Reference(t) : t \in Threads}

FrameOf(t) == IF thread = t THEN Locals ELSE suspended[t]

Over(f) == f.pc \in {"done", "raised"}

\* the scheduler gives the processor to invocation t: the reference runs go
\* first, one after the other and each to completion; the two invocations
\* proper are switched at any step
Switch(t) ==
    /\ t \in DOMAIN suspended
    /\ ~Over(suspended[t])
    /\ thread \in References => Over(Locals) /\ t = (thread % 4) + 1
    /\ thread \in Threads => t \in Threads
    /\ suspended' = [u \in (DOMAIN suspended \cup {thread}) \ {t} |->
                         IF u = thread THEN Locals ELSE suspended[u]]
    /\ Resume(suspended[t])
    /\ thread' = t
    /\ preempted' = (preempted \/ (pc # "start" /\ ~Over(Locals)))
    /\ UNCHANGED inputs
    /\ UNCHANGED serviceVars

\* a projection that chains three steps, and a validation
BriefInputs ==
    {[op |-> "project", variant |-> "vor_fix",
      query |-> [start_pos |-> Circumference \div 2, distance_nm |-> 1500,
                 inverse_error |-> 11]],
     [op |-> "validate", variant |-> "core",
      query |-> [expected_azimuth |-> 0, azi1 |-> OracleAzimuth(Deg(1, 1000)),
                 expected_distance_nm |-> 1000,
                 s12 |-> nm_to_meters(1000) + MmPerM]]}

\* a solver run that uses all MAX_ITERATIONS iterations: the reference is
\* 2 NM behind the origin and 1 NM abeam, the target distance 1 NM
LongInput ==
    [op |-> "solve", variant |-> "part_000",
     query |-> SolverQuery(0 - NM(2, 1), NM(1, 1), NM(1, 1), -1)]

\* solver runs that converge and one that meets the antimeridian, and a
\* projection that tries two step sizes
ConcurrentInputs ==
    {[op |-> "solve", variant |-> v, query |-> q] :
        v \in {"vor_fix", "part_000"},
        q \in {ShortIntersectionQuery,
               SolverQuery(NM(3, 1), 0, NM(3, 10), NM(1, 4))}}
    \cup
    {[op |-> "project", variant |-> "core",
      query |-> [start_pos |-> Circumference \div 2, distance_nm |-> 200,
                 inverse_error |-> 11]]}
    \cup BriefInputs
    \cup {LongInput}

\* the long run is paired with the brief ones only
ConcurrentPairs ==
    {p \in [Threads -> ConcurrentInputs] :
        \A t \in Threads :
            p[t] = LongInput => \A u \in Threads \ {t} : p[u] \in BriefInputs}

InitConcurrent ==
    /\ inputs \in ConcurrentPairs
    /\ thread = Reference(1)
    /\ preempted = FALSE
    /\ nav_file_path = ""
    /\ fix_file_path = ""
    /\ calls = <<>>
    /\ op = inputs[1].op
    /\ variant = inputs[1].variant
    /\ query = inputs[1].query
    /\ Entered
    /\ suspended = [t \in (Threads \cup References) \ {thread} |->
                       Entry(inputs[IF t \in Threads THEN t ELSE t - 2])]

NextConcurrent ==
    \/ SolveStart
    \/ IterateVorFix
    \/ IterateApp
    \/ LoopExhausted
    \/ SolveReturn
    \/ ValidateAccuracy
    \/ ProjectStartVorFix
    \/ ProjectStepVorFix
    \/ ProjectChainReturn
    \/ ProjectStartCore
    \/ ProjectNextSize
    \/ ProjectStepCore
    \/ ProjectVerifyChain
    \/ \E t \in Threads \cup References : Switch(t)

SpecConcurrent == InitConcurrent /\ [][NextConcurrent]_vars

-----------------------------------------------------------------------------
(* Properties of the solver *)

Finished == pc \in {"done", "raised"}

Returned == pc = "done" /\ result.kind = "point"

\* the error is strictly below the 1.0 m tolerance
BelowOneMeter(error_m) == LessThanMeters(error_m, 1, 1)

EvaluatedKinds == {evaluated[i].kind : i \in 1..Len(evaluated)}

\* C1: the solver never returns a point whose absolute distance error is
\* larger than the error of any point it evaluated during the search
\* (midpoints, the secant-corrected point and the two bracket endpoints
\* evaluated for the secant correction)
C1_ReturnsBestEvaluated ==
    (op = "solve" /\ Returned) =>
        \A i \in 1..Len(evaluated) : result.error <= evaluated[i].error

\* C2: the solver runs at most MAX_ITERATIONS (200) loop iterations, in both
\* variants and on paths through the stagnation branch (every iteration
\* tests one midpoint); after the 200th it leaves the loop and returns
C2_IterationBound ==
    op = "solve" =>
        /\ iteration <= MAX_ITERATIONS
        /\ Cardinality({i \in 1..Len(evaluated) : evaluated[i].kind = "mid"})
               <= MAX_ITERATIONS
        /\ (pc = "loop" /\ iteration >= MAX_ITERATIONS => ~LoopContinues(iteration))
        /\ (pc \in {"return", "done"} => iteration <= MAX_ITERATIONS)
        /\ (pc = "done" => result.kind = "point")

C2_Witness ==
    /\ op = "solve" /\ Returned
    /\ iteration = MAX_ITERATIONS
    /\ "secant" \in EvaluatedKinds

\* C3: in the short-intersection scenario (target 0.3 NM, crossing near
\* 3.95 NM) the solver returns a point with distance error below 1.0 m
\* within the iteration bound
C3_ShortIntersectionConverges ==
    (op = "solve" /\ query = ShortIntersectionQuery /\ Finished) =>
        /\ Returned
        /\ BelowOneMeter(result.error)
        /\ iteration <= MAX_ITERATIONS

\* C4: the search stops at the first evaluated point whose error is strictly
\* below 1.0 m: it is the last point evaluated and the point returned
C4_StopsAtFirstWithinTolerance ==
    op = "solve" =>
        \A i \in 1..Len(evaluated) :
            BelowOneMeter(evaluated[i].error) =>
                /\ i = Len(evaluated)
                /\ pc \in {"return", "done"}
                /\ best_approx_point.t = evaluated[i].t
                /\ best_approx_distance = evaluated[i].error
                /\ (pc = "done" => /\ result.kind = "point"
                                   /\ result.point.t = evaluated[i].t)

\* C5: with the reference at the origin and a positive target distance the
\* solver divides by nothing that is zero and leaves the loop through the
\* tolerance test or the bracket-width test within 200 iterations
Coincident == query.refX = 0 /\ query.refY = 0 /\ query.distance_nm > 0

C5_CoincidentReference ==
    (op = "solve" /\ Coincident) =>
        /\ result.kind # "ZeroDivisionError"
        /\ iteration <= MAX_ITERATIONS
        /\ (pc \in {"return", "done"} =>
                \/ BelowOneMeter(best_approx_distance)
                \/ LessThanNM(max_dist - min_dist, 1, 1000000))

C5_Witness ==
    /\ op = "solve" /\ query = CoincidentQuery /\ Returned
    /\ variant = "vor_fix"

\* C6: when no evaluated point reaches the 1 m tolerance the solver still
\* returns, as a normal result, the best approximation it evaluated; it
\* raises no exception
C6_NonConvergenceReturnsBest ==
    (op = "solve" /\ Finished
        /\ \A i \in 1..Len(evaluated) : ~BelowOneMeter(evaluated[i].error)) =>
        /\ result.kind = "point"
        /\ \E i \in 1..Len(evaluated) :
               /\ result.point.t = evaluated[i].t
               /\ result.error = evaluated[i].error
        /\ \A i \in 1..Len(evaluated) : result.error <= evaluated[i].error

\* C7: with valid input points and an oracle that reports latitudes in
\* [-90, 90] and longitudes in [-180, 180] (a longitude of exactly -180
\* included), no coordinate-range error is raised from inside the solver
C7_NoRangeErrorInside ==
    (op = "solve" /\ Coordinates_vor_fix(query.lat0, query.lon0)
        /\ \A i \in 1..Len(evaluated) :
               Coordinates_core(Direct(query, evaluated[i].t).lat,
                                Direct(query, evaluated[i].t).lon)) =>
        result.kind # "ValueError"

-----------------------------------------------------------------------------
(* Properties of Coordinates and of the validator *)

LatInRange == -90 * DegScale <= query.lat /\ query.lat <= 90 * DegScale

LonInRange == -180 * DegScale <= query.lon /\ query.lon <= 180 * DegScale

\* C8: constructing core_vor_calc.Coordinates(lat, lon) succeeds if and only
\* if -90 <= lat <= 90 and -180 <= lon <= 180, both poles and both longitude
\* boundaries included; otherwise it raises ValueError; so every value that
\* exists is in range
C8_CoreCoordinatesRange ==
    (op = "coords" /\ variant = "core" /\ Finished) =>
        /\ pc = "done" <=> (LatInRange /\ LonInRange)
        /\ pc = "done" => /\ result.kind = "Coordinates"
                          /\ result.lat = query.lat /\ result.lon = query.lon
                          /\ Abs(result.lat) <= 90 * DegScale
                          /\ Abs(result.lon) <= 180 * DegScale
        /\ pc = "raised" => result.kind = "ValueError"
        /\ (Abs(query.lat) = 91 * DegScale \/ Abs(query.lon) = 181 * DegScale)
               => pc = "raised"

C8_Witness ==
    /\ op = "coords" /\ variant = "core" /\ pc = "done"
    /\ result.kind = "Coordinates"
    /\ result.lon = -180 * DegScale
    /\ result.lat = -90 * DegScale

\* C30: the two Coordinates types accept exactly the same inputs: the
\* construction of either type succeeds if and only if the other type
\* accepts the same latitude and longitude, the longitude -180 included.
C30_SameAcceptance ==
    (op = "coords" /\ Finished) =>
        (pc = "done" <=> IF variant = "core"
                         THEN Coordinates_vor_fix(query.lat, query.lon)
                         ELSE Coordinates_core(query.lat, query.lon))

\* the azimuth error the validator reports for the actual azimuth a and the
\* expected azimuth e
ReportedAzimuthError(a, e) == AzimuthError(a, e)

\* C9: the validator normalises both azimuths into [0, 360) and reports the
\* shortest angular distance min(|d|, 360 - |d|): the error lies in
\* [0, 180], is the same with expected and actual swapped, and expected
\* 359.9 against actual 0.1 gives 0.2
C9_AzimuthError ==
    (op = "validate" /\ pc = "done") =>
        LET a == query.azi1
            e == query.expected_azimuth
            na == a - FullTurn * (a \div FullTurn)
            ne == e - FullTurn * (e \div FullTurn)
            d == IF na >= ne THEN na - ne ELSE ne - na
        IN  /\ result.actual_azimuth_deg = na
            /\ 0 <= result.actual_azimuth_deg /\ result.actual_azimuth_deg < FullTurn
            /\ result.azimuth_error_deg = IF d <= FullTurn - d THEN d ELSE FullTurn - d
            /\ 0 <= result.azimuth_error_deg
            /\ result.azimuth_error_deg <= 180 * DegScale
            /\ result.azimuth_error_deg = ReportedAzimuthError(e, a)
            /\ (ne = Deg(3599, 10) /\ na = Deg(1, 10))
                   => result.azimuth_error_deg = Deg(2, 10)

C9_Witness ==
    /\ op = "validate" /\ pc = "done"
    /\ query.expected_azimuth = Deg(3599, 10)
    /\ query.azi1 = Deg(1, 10)
    /\ result.azimuth_error_deg = Deg(2, 10)

\* the tiers of the rating, best first: the largest distance error in metres
\* and the largest azimuth error in thousandths of a degree
TierNames == <<"EXCELLENT", "VERY_GOOD", "GOOD", "ACCEPTABLE", "POOR">>

TierDistanceM == <<1, 5, 10, 50>>

TierAzimuthMilliDeg == <<1, 10, 100, 1000>>

TierHolds(i, d, a) ==
    /\ d <= TierDistanceM[i] * MmPerM
    /\ a * 1000 <= TierAzimuthMilliDeg[i] * DegScale

FirstTier(d, a) ==
    IF \E i \in 1..4 : TierHolds(i, d, a)
    THEN CHOOSE i \in 1..4 : TierHolds(i, d, a) /\ \A j \in 1..(i - 1) : ~TierHolds(j, d, a)
    ELSE 5

Rank(name) == CHOOSE i \in 1..5 : TierNames[i] = name

\* errors at and just above every threshold, and beyond the last
DistanceErrorGrid == { m * MmPerM + d : m \in {0, 1, 5, 10, 50}, d \in {0, 1} }

AzimuthErrorGrid ==
    {0, Deg(1, 1000), Deg(1, 1000) + 1, Deg(1, 100), Deg(1, 100) + 1, Deg(1, 10),
     Deg(1, 10) + 1, Deg(1, 1), Deg(1, 1) + 1, Deg(180, 1)}

\* C10: the rating is the first tier for which both thresholds hold
\* (EXCELLENT <= 1 m and <= 0.001 deg, VERY_GOOD <= 5 m and <= 0.01 deg,
\* GOOD <= 10 m and <= 0.1 deg, ACCEPTABLE <= 50 m and <= 1.0 deg, else
\* POOR), and it never improves when either error grows
C10_RatingTiers ==
    (op = "validate" /\ pc = "done") =>
        LET d == result.distance_error_m
            a == result.azimuth_error_deg
        IN  /\ result.accuracy_rating = TierNames[FirstTier(d, a)]
            /\ \A d2 \in DistanceErrorGrid, a2 \in AzimuthErrorGrid :
                   (d2 >= d /\ a2 >= a) =>
                       Rank(calculate_accuracy_rating(d2, a2))
                           >= Rank(result.accuracy_rating)

C10_Witness ==
    /\ op = "validate" /\ pc = "done"
    /\ result.distance_error_m = 3 * MmPerM \/ result.distance_error_m = 5 * MmPerM
    /\ result.azimuth_error_deg = Deg(1, 10)
    /\ result.accuracy_rating = "GOOD"

-----------------------------------------------------------------------------
(* Properties of calculate_precision_metrics *)

\* C11: calculate_precision_metrics of the empty list returns mean, max and
\* min 0 for the distance and for the azimuth error and total_calculations
\* 0, and raises nothing
C11_EmptyMetrics ==
    (op = "metrics" /\ query.calculations = <<>> /\ Finished) =>
        /\ pc = "done"
        /\ result.kind = "metrics"
        /\ result.mean_distance_error_m = 0
        /\ result.max_distance_error_m = 0
        /\ result.min_distance_error_m = 0
        /\ result.mean_azimuth_error_deg = 0
        /\ result.max_azimuth_error_deg = 0
        /\ result.min_azimuth_error_deg = 0
        /\ result.total_calculations = 0

C11_Witness ==
    /\ op = "metrics" /\ query.calculations = <<>> /\ pc = "done"
    /\ result.total_calculations = 0

-----------------------------------------------------------------------------
(* Properties of get_radius_letter *)

LetterGiven == op = "letter" /\ pc = "done"

\* C12: get_radius_letter(1.4) is 'A', get_radius_letter(1.5) is 'B', and
\* get_radius_letter(d) is the fallback 'Z' for every d >= 26.5
C12_LetterExamples ==
    LetterGiven =>
        /\ query.distance_nm = 140 => result.letter = "A"
        /\ query.distance_nm = 150 => result.letter = "B"
        /\ query.distance_nm >= 2650 => result.letter = "Z"

C12_Witness ==
    /\ LetterGiven /\ variant = "vor_fix"
    /\ query.distance_nm = 150
    /\ result.letter = "B"

\* the bucket of the i-th letter as the specification words it: (0.1, 1.5] for A,
\* (i - 0.5, i + 0.5] for the others
BucketLow(i) == IF i = 1 THEN 10 ELSE 100 * i - 50

BucketHigh(i) == 100 * i + 50

\* C13 as stated: for every bucket (low, high] and every d with
\* low < d <= high, get_radius_letter of vor_fix_calculation.py returns the
\* bucket's letter, the upper boundary included
C13_BucketsOpenBelow ==
    (LetterGiven /\ variant = "vor_fix") =>
        \A i \in 1..26 :
            (BucketLow(i) < query.distance_nm /\ query.distance_nm <= BucketHigh(i))
                => result.letter = Letters[i]

\* C13 as the code has it: the buckets are closed below and open above,
\* [low, high): every d with low <= d < high gets the bucket's letter, and an
\* upper boundary gets the letter of the next bucket (26.5 the fallback 'Z')
C13_BucketsOpenAbove ==
    (LetterGiven /\ variant = "vor_fix") =>
        \A i \in 1..26 :
            /\ (BucketLow(i) <= query.distance_nm /\ query.distance_nm < BucketHigh(i))
                   => result.letter = Letters[i]
            /\ query.distance_nm = BucketHigh(i)
                   => result.letter = Letters[IF i = 26 THEN 26 ELSE i + 1]

C13_Witness ==
    /\ LetterGiven /\ variant = "vor_fix"
    /\ query.distance_nm = 250
    /\ result.letter = "C"

\* the solver has set its bracket and has not yet tested a point
BeforeFirstIteration == op = "solve" /\ pc = "loop" /\ iteration = 0

\* C19: before the first iteration the bracket is [0, 0.2] NM for a target
\* below 0.05 NM, [0, max(1, 2 * target)] NM for a target from 0.05 NM to
\* below 0.5 NM, and [max(0, D - target - 1), D + target + 1] NM otherwise,
\* D being the origin-to-reference distance the oracle reports.  (0.2 NM is
\* the largest whole number of units that does not exceed it.)
C19_InitialBracket ==
    BeforeFirstIteration =>
        LET target == query.distance_nm
            D == FixDmeDistance(query)
        IN  IF LessThanNM(target, 5, 100)
            THEN /\ min_dist = 0
                 /\ 10 * max_dist <= 2 * UnitsPerNM
                 /\ 2 * UnitsPerNM < 10 * (max_dist + 1)
            ELSE IF LessThanNM(target, 1, 2)
            THEN /\ min_dist = 0
                 /\ max_dist = Max(UnitsPerNM, 2 * target)
            ELSE /\ min_dist = Max(0, D - target - UnitsPerNM)
                 /\ max_dist = D + target + UnitsPerNM

\* a target of 0.5 NM with the reference 2 NM ahead: the bracket is
\* [0.5, 3.5] NM
C19_Witness ==
    /\ BeforeFirstIteration /\ variant = "vor_fix"
    /\ query.distance_nm = NM(1, 2)
    /\ FixDmeDistance(query) = NM(2, 1)
    /\ min_dist = NM(1, 2)
    /\ max_dist = NM(7, 2)

\* the point tested last
LastEvaluated == evaluated'[Len(evaluated')]

\* an iteration that tests the midpoint only, does not stop on it and goes
\* on to "adjust search range" (vor_fix_calculation.py 1379-1382, part_000
\* 3735-3740)
OrdinaryBisectionStep ==
    /\ op = "solve" /\ pc = "loop"
    /\ iteration' = iteration + 1
    /\ Len(evaluated') = Len(evaluated) + 1
    /\ ~WithinTolerance(LastEvaluated.error)

\* C20: in an ordinary bisection step the point tested is the midpoint t of
\* the bracket (rounded down to a unit); if its distance to the reference
\* exceeds the target, max becomes t and min stays, otherwise min becomes t
\* and max stays.  A bracket with min <= max is followed by one with
\* min <= max that lies inside it and is half as wide (to the unit lost in
\* rounding t).
C20_BisectionStep ==
    [][OrdinaryBisectionStep =>
          LET t == LastEvaluated.t
              width == max_dist - min_dist
          IN  /\ 2 * t <= min_dist + max_dist
              /\ min_dist + max_dist <= 2 * t + 1
              /\ IF InverseToDme(query, t) > query.distance_nm
                 THEN max_dist' = t /\ min_dist' = min_dist
                 ELSE min_dist' = t /\ max_dist' = max_dist
              /\ min_dist <= max_dist =>
                     /\ min_dist' <= max_dist'
                     /\ min_dist <= min_dist' /\ max_dist' <= max_dist
                     /\ Abs(2 * (max_dist' - min_dist') - width) <= 1
              /\ width % 2 = 0 => 2 * (max_dist' - min_dist') = width]_vars

\* the bracket [0.5, 3.5] NM has become [2, 3.5] NM: the midpoint at 2 NM is
\* the reference itself, nearer to it than the target of 0.5 NM
C20_Witness ==
    /\ op = "solve" /\ pc = "loop" /\ iteration = 1
    /\ query.distance_nm = NM(1, 2)
    /\ FixDmeDistance(query) = NM(2, 1)
    /\ evaluated = <<Eval("mid", NM(2, 1), NM(1, 2))>>
    /\ min_dist = NM(2, 1)
    /\ max_dist = NM(7, 2)

\* an iteration of part_000 that does not stop on its midpoint
AppIteration ==
    /\ op = "solve" /\ variant = "part_000" /\ pc = "loop"
    /\ iteration' = iteration + 1
    /\ ~WithinTolerance(evaluated'[Len(evaluated) + 1].error)

\* the error of the midpoint differs from the error of the iteration before
\* by less than a tenth of the tolerance
SmallChange == MinimalProgress(prev_error, evaluated'[Len(evaluated) + 1].error)

\* the iteration takes the stagnation branch: it measures the two ends of
\* the bracket
CorrectionMade == Len(evaluated') >= Len(evaluated) + 3

\* the stagnation counter counts the consecutive iterations of small change
\* and the correction is made on the n-th of them: the counter goes up by
\* one on a small change that is not the n-th in a row, the correction is
\* made on a small change that is, the counter is 0 after a correction that
\* does not end the loop and after a change that is not small, and an
\* iteration without correction records its error as the previous one
StagnationRule(n) ==
    AppIteration =>
        /\ CorrectionMade <=> (SmallChange /\ stagnation_counter + 1 = n)
        /\ (SmallChange /\ ~CorrectionMade) =>
               stagnation_counter' = stagnation_counter + 1
        /\ ~SmallChange => stagnation_counter' = 0
        /\ (CorrectionMade /\ pc' = "loop") => stagnation_counter' = 0
        /\ ~CorrectionMade => prev_error' = evaluated'[Len(evaluated')].error

\* C21, as the specification words it: the correction is made on the 5th
\* consecutive iteration whose error changed by less than 0.1 m, not earlier
\* and not later, and the counter is reset to 0 afterwards and by any
\* iteration whose error changed by 0.1 m or more.
C21_CorrectionOnFifth == [][StagnationRule(5)]_vars

\* C21, amended: the correction is made on the 6th consecutive iteration
\* whose error changed by less than 0.1 m, not earlier and not later, and
\* the counter is reset to 0 afterwards and by any iteration whose error
\* changed by 0.1 m or more.
C21_CorrectionOnSixth == [][StagnationRule(6)]_vars

\* a correction has just been made, with a secant point, on the 6th of six
\* consecutive midpoints of small change, and the loop goes on with the
\* counter at 0
C21_Witness ==
    /\ op = "solve" /\ variant = "part_000" /\ pc = "loop"
    /\ stagnation_counter = 0
    /\ Len(evaluated) >= 11
    /\ LET k == Len(evaluated) - 3
       IN  /\ evaluated[k + 3].kind = "secant"
           /\ evaluated[k + 1].kind = "end"
           /\ \A i \in (k - 7)..k : evaluated[i].kind = "mid"
           /\ \A i \in (k - 5)..k :
                  MinimalProgress(evaluated[i - 1].error, evaluated[i].error)
           /\ ~MinimalProgress(evaluated[k - 7].error, evaluated[k - 6].error)

\* the arc length the secant correction of this iteration arrived at
CorrectedDist == evaluated'[Len(evaluated')].t

\* the iteration made a correction with a secant point and goes on
SecantAdjustment ==
    /\ AppIteration /\ CorrectionMade /\ pc' = "loop"
    /\ evaluated'[Len(evaluated')].kind = "secant"

\* C22: when the secant-corrected arc length falls outside the bracket, the
\* new bracket is [min + (max - min) / 3, max - (max - min) / 3] (each end
\* to within one unit): it lies inside the old bracket and has a third of
\* its width.
C22_ShrinkByThirds ==
    [][(SecantAdjustment
          /\ ~(min_dist < CorrectedDist /\ CorrectedDist < max_dist)) =>
          LET third == (max_dist - min_dist) \div 3
          IN  /\ Abs(min_dist' - (min_dist + third)) <= 1
              /\ Abs(max_dist' - (max_dist - third)) <= 1
              /\ min_dist <= min_dist' /\ max_dist' <= max_dist]_vars

\* C23: when the secant-corrected arc length lies strictly inside the
\* bracket, exactly one end of the bracket becomes that arc length: max if
\* the distance from the corrected point to the reference exceeds the
\* target, min otherwise.
C23_NarrowTowardCorrected ==
    [][(SecantAdjustment
          /\ min_dist < CorrectedDist /\ CorrectedDist < max_dist) =>
          IF InverseToDme(query, CorrectedDist) > query.distance_nm
          THEN max_dist' = CorrectedDist /\ min_dist' = min_dist
          ELSE min_dist' = CorrectedDist /\ max_dist' = max_dist]_vars

\* C24: the loop never goes on to evaluate a new midpoint on a bracket
\* narrower than 1e-6 NM: whenever another iteration is due, whether the
\* last one bisected the bracket or corrected it after stagnation, the
\* bracket is at least 1e-6 NM wide.
C24_NoMidpointOnNarrowBracket ==
    (op = "solve" /\ pc = "loop" /\ iteration < MAX_ITERATIONS) =>
        ~RangeExhausted(min_dist, max_dist)

\* the bracket the search starts on
InitialBracket == SearchRange(query.distance_nm, FixDmeDistance(query))

\* the origin lies outside the target circle, the ray passes the reference
\* closer than the target distance, and both crossings lie strictly inside
\* the initial bracket: the near one before the point of closest approach
\* (arc length refX), the far one after it
TwoCrossings ==
    /\ FixDmeDistance(query) > query.distance_nm
    /\ Abs(query.refY) < query.distance_nm
    /\ InitialBracket[1] < query.refX /\ query.refX < InitialBracket[2]
    /\ InverseToDme(query, InitialBracket[1]) > query.distance_nm
    /\ InverseToDme(query, InitialBracket[2]) > query.distance_nm

\* C25: when the ray crosses the target circle twice inside the initial
\* bracket, the point returned is the near-side crossing: its arc length
\* does not exceed that of the point of closest approach to the reference.
C25_NearSideCrossing ==
    (op = "solve" /\ pc = "done" /\ result.kind = "point" /\ TwoCrossings) =>
        result.point.t <= query.refX

\* C26: whatever the target distance (zero and negative ones included) and
\* the origin-to-reference distance, the bracket computed from them has
\* 0 <= min < max and is the bracket the loop starts on: the default range
\* never replaces it.
C26_BracketWellFormed ==
    BeforeFirstIteration =>
        /\ 0 <= InitialBracket[1] /\ InitialBracket[1] < InitialBracket[2]
        /\ min_dist = InitialBracket[1] /\ max_dist = InitialBracket[2]

\* the vor_fix solver is about to start its loop on [0, 0.2] NM for a
\* negative target, the reference away from the origin
C26_Witness ==
    /\ BeforeFirstIteration /\ variant = "vor_fix"
    /\ query.distance_nm < 0 /\ FixDmeDistance(query) > 0
    /\ min_dist = 0 /\ max_dist = (2 * UnitsPerNM) \div 10

\* arc lengths along the ray: every 1/SamplesPerNM of a nautical mile from
\* the origin to the limit of the planar oracle
SamplesPerNM == 4

ArcLengths ==
    { (k * UnitsPerNM) \div SamplesPerNM :
        k \in 0..(SamplesPerNM * (FarDist \div UnitsPerNM)) }

\* the arc lengths at which the ray is at the target distance from the
\* reference
Crossings ==
    { t \in ArcLengths : InverseToDme(query, t) = query.distance_nm }

\* C27: for a target of 0.5 NM or more, every arc length t >= 0 at which
\* the ray is at the target distance from the reference lies in the bracket
\* the search starts on, and between |D - target| and D + target.
C27_BracketHoldsCrossings ==
    (BeforeFirstIteration /\ ~LessThanNM(query.distance_nm, 5, 10)) =>
        \A t \in Crossings :
            /\ min_dist <= t /\ t <= max_dist
            /\ Abs(FixDmeDistance(query) - query.distance_nm) <= t
            /\ t <= FixDmeDistance(query) + query.distance_nm

\* the search starts for a target of 1 NM with the reference 2 NM ahead on
\* the ray: the crossings at 1 NM and at 3 NM lie in the bracket [0, 4] NM
C27_Witness ==
    /\ BeforeFirstIteration /\ ~LessThanNM(query.distance_nm, 5, 10)
    /\ Cardinality(Crossings) = 2
    /\ \A t \in Crossings : min_dist < t /\ t < max_dist

\* C28: every arc length at which the solver evaluates a candidate for the
\* result, a midpoint or a secant-corrected point, is at least 0 and lies in
\* the initial bracket, and the point returned is not behind the origin.
C28_CandidatesOnRay ==
    op = "solve" =>
        /\ \A i \in DOMAIN evaluated :
              evaluated[i].kind # "end" =>
                  /\ evaluated[i].t >= 0
                  /\ InitialBracket[1] <= evaluated[i].t
                  /\ evaluated[i].t <= InitialBracket[2]
        /\ (pc = "done" /\ result.kind = "point") => result.point.t >= 0

-----------------------------------------------------------------------------
(* Properties of the forward projection *)

Projected == op = "project" /\ pc # "start"

\* the verified error of the single forward call is at most 0.1 m
SingleWithinTenth == 10 * single.error <= DmPerM

\* C14: whenever the verified distance error of the single forward call is
\* at most 0.1 m, no further forward call is made and the point returned is
\* the single-step point; the multi-step path is entered, and a second
\* forward call made, only when that error exceeds 0.1 m.
C14_SingleStepReturned ==
    Projected =>
        /\ SingleWithinTenth =>
               /\ pc \in {"done", "raised"}
               /\ Len(forward_calls) = 1
               /\ pc = "done" => result.pos = single.point.pos
        /\ (pc \in {"steps", "sizes"} \/ Len(forward_calls) > 1) =>
               ~SingleWithinTenth

\* a projection of 1000 NM whose single step is off by exactly 0.1 m
\* returns that step
C14_Witness ==
    /\ Projected /\ variant = "vor_fix" /\ pc = "done"
    /\ query.distance_nm >= 1000
    /\ 10 * single.error = DmPerM
    /\ result.pos = single.point.pos
    /\ Len(forward_calls) = 1

\* the chained forward calls: every forward call after the first
ChainedCalls == SubSeq(forward_calls, 2, Len(forward_calls))

\* where a forward call ends
Destination(call) == (call.from + call.length) % Circumference

MultiStepTaken ==
    /\ op = "project" /\ variant = "vor_fix"
    /\ pc = "steps" \/ Len(forward_calls) > 1

ReturnedError ==
    DistanceError(query, PointAt(query.start_pos), PointAt(result.pos))

-----------------------------------------------------------------------------
(* Properties of concurrent invocations *)

-----------------------------------------------------------------------------
(* Properties of the input validator *)

\* the string is white space, a number, white space, a number and white
\* space again, where the white space in the middle is not empty, the first
\* number is a latitude in [-90, 90] and the second a longitude in
\* [-180, 180]
TwoNumbersInRange(str) ==
    LET inked == {i \in 1..Len(str) : str[i] # " "}
    IN  \E j, k \in inked :
            LET first == SubSeq(str, CHOOSE i \in inked : \A m \in inked : i <= m, j)
                second == SubSeq(str, k, CHOOSE i \in inked : \A m \in inked : m <= i)
            IN  /\ j + 1 < k
                /\ \A p \in (j + 1)..(k - 1) : str[p] = " "
                /\ \A p \in 1..Len(first) : first[p] # " "
                /\ \A p \in 1..Len(second) : second[p] # " "
                /\ Parses(first) /\ Parses(second)
                /\ Abs(Float(first)) <= 90 * DegScale
                /\ Abs(Float(second)) <= 180 * DegScale

\* C17: validate_coordinates returns a Coordinates value exactly when the
\* string consists of two white-space separated numbers in the latitude and
\* longitude ranges, and raises ValueError, nothing else, on every other
\* string.
C17_ValidateCoordinates ==
    (op = "validate_coordinates" /\ pc # "start") =>
        /\ result.kind \in {"Coordinates", "ValueError"}
        /\ result.kind = "Coordinates" <=> TwoNumbersInRange(query.coords_str)
        /\ pc = "raised" <=> result.kind = "ValueError"

\* "9 -111" is returned as latitude 9, longitude -111
C17_Witness ==
    /\ op = "validate_coordinates" /\ pc = "done"
    /\ query.coords_str = <<"9", " ", "-", "1", "1", "1">>
    /\ result = [kind |-> "Coordinates", lat |-> 9 * DegScale,
                 lon |-> 0 - 111 * DegScale]

-----------------------------------------------------------------------------
(* Properties of the navigation data service *)

Searched == op = "navdata" /\ pc # "start"

\* no set_file_path call has stored a path other than "" for the file type
NeverStored(file_type) ==
    \A i \in 1..Len(calls) :
        calls[i].file_type = file_type => calls[i].path = ""

\* the last path stored for the file type is "", or none was stored
StoredEmpty(file_type) ==
    LET stores == {i \in 1..Len(calls) : calls[i].file_type = file_type}
    IN  \A i \in stores : (\A j \in stores : j <= i) => calls[i].path = ""

\* C18: search_identifier raises FileNotFoundError, and returns no list,
\* whenever the path stored for the requested file type is empty: after
\* construction, and after set_file_path calls of which the last for that
\* type, or every one for that type, stored "", whatever they stored for
\* the other type.
C18_NoFileSelected ==
    Searched =>
        /\ StoredEmpty(query.file_type) =>
               /\ pc = "raised"
               /\ result.kind = "FileNotFoundError"
        /\ NeverStored(query.file_type) => StoredEmpty(query.file_type)

\* a search of the FIX file raises after a NAV path and an empty FIX path
\* were stored
C18_Witness ==
    /\ Searched /\ query.file_type = "FIX"
    /\ nav_file_path = "earth_nav"
    /\ \E i \in 1..Len(calls) : calls[i].file_type = "FIX"
    /\ NeverStored("FIX")
    /\ pc = "raised" /\ result.kind = "FileNotFoundError"

====
